---- MODULE Spec2Model ----
(***************************************************************************)
(* mqtt-trace: the two message sinks of the repository and the dispatcher  *)
(* that feeds them.                                                        *)
(*                                                                         *)
(*   Line Sink        src/main.go            FileWriter.WriteMessage       *)
(*   JSON Store Sink  src/unnamed/part_000   MessageStore.AddMessage       *)
(*                                                                         *)
(* The two programs are alternatives; `variant` says which one runs.       *)
(* A file is a sequence of text tokens.  The clock counts whole seconds.   *)
(***************************************************************************)
EXTENDS Integers, Sequences, FiniteSets, TLC

\* ------------------------------------------------------------------ bounds
NumHandlers == 2
MaxMsgs == 2
MaxClock == 1

Procs == 1..NumHandlers
NoProc == 0

\* ------------------------------------------------------------- JSON values
\* A decoded JSON value, as json.Unmarshal stores it in map[string]any:
\* a string (its characters) or a number.
StrVal(chars) == [t |-> "string", s |-> chars, n |-> 0]
NumVal(k) == [t |-> "number", s |-> <<>>, n |-> k]

Numbers == {-65, 7}

EmptyMap == [k \in {} |-> NumVal(0)]

\* map[string]any with the given keys
Map1(k1, v1) == [k \in {k1} |-> v1]
Map2(k1, v1, k2, v2) == [k \in {k1, k2} |-> IF k = k1 THEN v1 ELSE v2]

Payloads ==
    { EmptyMap,
      Map1("name", StrVal(<<"a">>)),
      Map2("rssi", NumVal(-65), "id", NumVal(7)),
      Map2("name", StrVal(<<"b", "\n", "c">>), "rssi", StrVal(<<"x">>)) }

\* The body of an MQTT message: msg.Payload()
Bodies ==
    { [kind |-> "invalid", fields |-> EmptyMap],
      [kind |-> "nonobject", fields |-> EmptyMap],
      [kind |-> "null", fields |-> EmptyMap] }
    \cup { [kind |-> "object", fields |-> p] : p \in Payloads }

\* a variant of Unmarshal with a bug: the error is not reported
UnmarshalNoError(body) == [err |-> FALSE, payload |-> body.fields]

\* json.Unmarshal(msg.Payload(), &payload) into a map[string]any: text that
\* is no JSON, or JSON that is no object, is an error; the JSON null is no
\* error and leaves the map nil (it reads as an empty map).
Unmarshal(body) ==
    CASE body.kind = "object" -> [err |-> FALSE, payload |-> body.fields]
      [] body.kind = "null" -> [err |-> FALSE, payload |-> EmptyMap]
      [] OTHER -> [err |-> TRUE, payload |-> EmptyMap]

\* ------------------------------------------------------------- formatting
\* time.Now().Format(time.RFC3339): the time to the second, as text
Format(t) == "T" \o ToString(t)

\* fmt.Sprintf("%v", v): a string is printed raw, a number in decimal
Sprintf(v) == IF v.t = "string" THEN v.s ELSE <<ToString(v.n)>>

\* a variant of BuildLine with a bug: a segment is written for an absent key too
BuildLineEmptySegments(date, payload) ==
    <<date, "|name=">>
    \o (IF "name" \in DOMAIN payload THEN Sprintf(payload["name"]) ELSE <<>>)
    \o <<"|rssi=">>
    \o (IF "rssi" \in DOMAIN payload THEN Sprintf(payload["rssi"]) ELSE <<>>)
    \o <<"\n">>

\* FileWriter.WriteMessage, the line it builds
BuildLine(date, payload) ==
    LET l0 == <<date>>
        l1 == IF "name" \in DOMAIN payload
              THEN l0 \o <<"|name=">> \o Sprintf(payload["name"])
              ELSE l0
        l2 == IF "rssi" \in DOMAIN payload
              THEN l1 \o <<"|rssi=">> \o Sprintf(payload["rssi"])
              ELSE l1
    IN  l2 \o <<"\n">>

\* a variant of FilterPayload with a bug: the whole payload is kept
FilterPayloadAll(payload) == payload

\* MessageStore.AddMessage, the filtered payload
FilterPayload(payload) ==
    LET f0 == EmptyMap
        f1 == IF "rssi" \in DOMAIN payload
              THEN [k \in DOMAIN f0 \cup {"rssi"} |->
                      IF k = "rssi" THEN payload["rssi"] ELSE f0[k]]
              ELSE f0
        f2 == IF "name" \in DOMAIN payload
              THEN [k \in DOMAIN f1 \cup {"name"} |->
                      IF k = "name" THEN payload["name"] ELSE f1[k]]
              ELSE f1
    IN  f2

MessageRecord(date, payload) == [Date |-> date, Payload |-> payload]

\* ---------------------------------------------------------- JSON encoding
\* encoding/json: a string is quoted and its newline escaped, a number is
\* printed in decimal, the keys of a map are written in sorted order.
Escape(c) == IF c = "\n" THEN "\\n" ELSE c
Unescape(c) == IF c = "\\n" THEN "\n" ELSE c

EncodeString(chars) ==
    <<"\"">> \o [i \in 1..Len(chars) |-> Escape(chars[i])] \o <<"\"">>

EncodeValue(v) == IF v.t = "string" THEN EncodeString(v.s) ELSE <<ToString(v.n)>>

Key(k) == "\"" \o k \o "\""

\* the keys a record's payload can hold, in encoding/json's (sorted) order
SortedKeys == <<"id", "name", "rssi">>

RECURSIVE EncodeFields(_, _, _)
EncodeFields(m, i, first) ==
    IF i > Len(SortedKeys) THEN <<>>
    ELSE LET k == SortedKeys[i]
         IN  IF k \in DOMAIN m
             THEN (IF first THEN <<>> ELSE <<",">>)
                  \o <<Key(k), ":">> \o EncodeValue(m[k])
                  \o EncodeFields(m, i + 1, FALSE)
             ELSE EncodeFields(m, i + 1, first)

EncodeMap(m) == <<"{">> \o EncodeFields(m, 1, TRUE) \o <<"}">>

\* MessageRecord with its json tags "date" and "payload"
EncodeRecord(r) ==
    <<"{", Key("date"), ":">> \o EncodeString(<<r.Date>>) \o <<",", Key("payload"), ":">>
    \o EncodeMap(r.Payload) \o <<"}">>

RECURSIVE EncodeRecords(_, _)
EncodeRecords(recs, i) ==
    IF i > Len(recs) THEN <<>>
    ELSE (IF i = 1 THEN <<>> ELSE <<",">>) \o EncodeRecord(recs[i])
         \o EncodeRecords(recs, i + 1)

\* a variant of Encode with a bug: only the newest record is written
EncodeNewest(recs) ==
    <<"[">> \o (IF recs = <<>> THEN <<>> ELSE EncodeRecord(recs[Len(recs)])) \o <<"]", "\n">>

\* encoder.Encode(ms.messages): the array, then a newline
Encode(recs) == <<"[">> \o EncodeRecords(recs, 1) \o <<"]", "\n">>

\* ---------------------------------------------------------- JSON decoding
\* A reader of the output file: the tokens parsed back to records.
Tok(toks, i) == IF i <= Len(toks) THEN toks[i] ELSE "<eof>"
Fail == [ok |-> FALSE, val |-> <<>>, pos |-> 0]
Good(v, p) == [ok |-> TRUE, val |-> v, pos |-> p]

RECURSIVE ParseChars(_, _, _)
ParseChars(toks, i, acc) ==
    IF i > Len(toks) THEN Fail
    ELSE IF toks[i] = "\"" THEN Good(acc, i + 1)
    ELSE ParseChars(toks, i + 1, Append(acc, Unescape(toks[i])))

ParseString(toks, i) ==
    IF Tok(toks, i) = "\"" THEN ParseChars(toks, i + 1, <<>>) ELSE Fail

IsNumber(t) == \E n \in Numbers : ToString(n) = t
ParseNumber(t) == CHOOSE n \in Numbers : ToString(n) = t

ParseValue(toks, i) ==
    IF Tok(toks, i) = "\""
    THEN LET s == ParseString(toks, i)
         IN  IF s.ok THEN Good(StrVal(s.val), s.pos) ELSE Fail
    ELSE IF IsNumber(Tok(toks, i))
    THEN Good(NumVal(ParseNumber(toks[i])), i + 1)
    ELSE Fail

IsKey(t) == \E k \in {"id", "name", "rssi"} : Key(k) = t
ParseKey(t) == CHOOSE k \in {"id", "name", "rssi"} : Key(k) = t

\* the members of an object after its "{": key ":" value, separated by ","
RECURSIVE ParseMembers(_, _, _)
ParseMembers(toks, i, acc) ==
    IF IsKey(Tok(toks, i)) /\ Tok(toks, i + 1) = ":"
    THEN LET v == ParseValue(toks, i + 2)
             k == ParseKey(toks[i])
             m == [x \in DOMAIN acc \cup {k} |-> IF x = k THEN v.val ELSE acc[x]]
         IN  IF ~v.ok THEN Fail
             ELSE IF Tok(toks, v.pos) = "," THEN ParseMembers(toks, v.pos + 1, m)
             ELSE IF Tok(toks, v.pos) = "}" THEN Good(m, v.pos + 1)
             ELSE Fail
    ELSE Fail

ParseMap(toks, i) ==
    IF Tok(toks, i) # "{" THEN Fail
    ELSE IF Tok(toks, i + 1) = "}" THEN Good(EmptyMap, i + 2)
    ELSE ParseMembers(toks, i + 1, EmptyMap)

ParseRecord(toks, i) ==
    IF Tok(toks, i) = "{" /\ Tok(toks, i + 1) = Key("date") /\ Tok(toks, i + 2) = ":"
    THEN LET d == ParseString(toks, i + 3)
         IN  IF d.ok /\ Len(d.val) = 1 /\ Tok(toks, d.pos) = ","
                /\ Tok(toks, d.pos + 1) = Key("payload") /\ Tok(toks, d.pos + 2) = ":"
             THEN LET p == ParseMap(toks, d.pos + 3)
                  IN  IF p.ok /\ Tok(toks, p.pos) = "}"
                      THEN Good(MessageRecord(d.val[1], p.val), p.pos + 1)
                      ELSE Fail
             ELSE Fail
    ELSE Fail

RECURSIVE ParseElements(_, _, _)
ParseElements(toks, i, acc) ==
    LET r == ParseRecord(toks, i)
    IN  IF ~r.ok THEN Fail
        ELSE IF Tok(toks, r.pos) = "," THEN ParseElements(toks, r.pos + 1, Append(acc, r.val))
        ELSE IF Tok(toks, r.pos) = "]" THEN Good(Append(acc, r.val), r.pos + 1)
        ELSE Fail

\* the whole file: one array, then the newline, then nothing
Decode(toks) ==
    LET a == IF Tok(toks, 1) # "[" THEN Fail
             ELSE IF Tok(toks, 2) = "]" THEN Good(<<>>, 3)
             ELSE ParseElements(toks, 2, <<>>)
    IN  IF a.ok /\ Tok(toks, a.pos) = "\n" /\ Len(toks) = a.pos THEN a ELSE Fail

\* ------------------------------------------------------------------ state
VARIABLES
    variant,    \* "line": src/main.go runs; "json": src/unnamed/part_000 runs
    clock,      \* the last reading of the wall clock, in seconds
    file,       \* the content of the output file
    mu,         \* FileWriter.mu / MessageStore.mu: the handler holding it, or NoProc
    messages,   \* MessageStore.messages
    mainpc,     \* where main is
    delivered,  \* messages the MQTT client has handed to messageHandler so far
    undecodable,\* history: how many of them were no JSON object
    pc,         \* where each messageHandler goroutine is
    payload,    \* the decoded payload of a handler
    buf,        \* the bytes a handler is writing (the line, or the encoded array)
    sent,       \* how many of them the file has taken
    err,        \* the error the sink call of a handler returns ("" is nil)
    cur,        \* history: the index in calls of a handler's sink call
    calls,      \* history: every sink call made, in the order the calls began
    overlap,    \* history: some sink call began while another was in progress
    file0       \* history: the content of the file when the process started

vars == <<variant, clock, file, mu, messages, mainpc, delivered, undecodable, pc,
          payload, buf, sent, err, cur, calls, overlap, file0>>

\* what the output file holds when the process starts: a line of an earlier run
InitFile == <<"old", "\n">>

\* a handler inside WriteMessage / AddMessage
InCall(p) == pc[p] \in {"call", "locked", "save", "write", "unlock"}
\* a handler inside the section the lock guards
InLock(p) == pc[p] \in {"locked", "save", "write", "unlock"}

Init ==
    /\ variant \in {"line", "json"}
    /\ clock = 0
    /\ file = InitFile
    /\ file0 = file
    /\ mu = NoProc
    /\ messages = <<>>
    /\ mainpc = "running"
    /\ delivered = 0
    /\ undecodable = 0
    /\ pc = [p \in Procs |-> "idle"]
    /\ payload = [p \in Procs |-> EmptyMap]
    /\ buf = [p \in Procs |-> <<>>]
    /\ sent = [p \in Procs |-> 0]
    /\ err = [p \in Procs |-> ""]
    /\ cur = [p \in Procs |-> 0]
    /\ calls = <<>>
    /\ overlap = FALSE

\* the process is alive: main has not returned
Alive == mainpc # "exited"

\* ------------------------------------------------------------------ clock
\* time.Now(), to the second: the wall clock never runs backwards, so a
\* reading is the second of the last reading or the next one. clock is the
\* last reading.
Now == {t \in {clock, clock + 1} : t <= MaxClock}

\* ------------------------------------------------------------- dispatcher
\* what a sink call looks like when it begins
NewCall(pl) ==
    [payload |-> pl, status |-> "run", date |-> "", line |-> <<>>, off |-> 0,
     n |-> 0, idx |-> 0]

\* a body that is no JSON object: no JSON at all, or JSON of another type
Undecodable(b) == b.kind \in {"invalid", "nonobject"}

\* The MQTT client calls messageHandler with one message, on a goroutine of
\* its own (the first free one: goroutines are interchangeable):
\* json.Unmarshal, then either the log line and the return, or the call of
\* the sink.
Handler(p, b) ==
    /\ mainpc = "running"
    /\ pc[p] = "idle"
    /\ \A q \in Procs : q < p => pc[q] # "idle"
    /\ delivered < MaxMsgs
    /\ delivered' = delivered + 1
    /\ undecodable' = undecodable + (IF Undecodable(b) THEN 1 ELSE 0)
    /\ LET u == Unmarshal(b)
       IN  IF u.err
           THEN \* log.Printf("Error unmarshaling ..."); return
                UNCHANGED <<pc, payload, cur, calls, overlap>>
           ELSE /\ pc' = [pc EXCEPT ![p] = "call"]
                /\ payload' = [payload EXCEPT ![p] = u.payload]
                /\ calls' = Append(calls, NewCall(u.payload))
                /\ cur' = [cur EXCEPT ![p] = Len(calls) + 1]
                /\ overlap' = (overlap \/ \E q \in Procs : InCall(q))
    /\ UNCHANGED <<variant, clock, file, mu, messages, mainpc, buf, sent, err, file0>>

\* ------------------------------------------------------------------- lock
\* a variant of CanLock with a bug: no mutual exclusion
CanLockAlways(p) == TRUE

\* sync.Mutex.Lock / sync.RWMutex.Lock: blocks while another goroutine holds it
CanLock(p) == mu = NoProc

Lock(p) ==
    /\ Alive
    /\ pc[p] = "call"
    /\ CanLock(p)
    /\ mu' = p
    /\ pc' = [pc EXCEPT ![p] = "locked"]
    /\ UNCHANGED <<variant, clock, file, messages, mainpc, delivered, undecodable,
                   payload, buf, sent, err, cur, calls, overlap, file0>>

\* ------------------------------------------------------------ the file system
\* a variant of OpenFile with a bug: O_TRUNC in the place of O_APPEND
OpenFileTrunc(f) == <<>>

\* os.OpenFile(path, O_APPEND|O_CREATE|O_WRONLY, 0644): the content stays
OpenFile(f) == f

\* os.Create(path): the file is truncated
CreateFile(f) == <<>>

\* file.WriteString / the encoder's file.Write: the kernel takes the bytes in
\* one or more pieces, each put at the end of the file
\* The sizes the next piece of a write of n tokens can have, done of them
\* written: the write goes in one piece, or in two halves (a short write,
\* then the rest).
PieceSizes(n, done) ==
    IF done = 0 THEN {k \in 1..n : k = n \div 2 \/ k = n} ELSE {n - done}

WriteChunk(p, k) ==
    /\ Alive
    /\ pc[p] = "write"
    /\ k \in PieceSizes(Len(buf[p]), sent[p])
    /\ file' = file \o SubSeq(buf[p], sent[p] + 1, sent[p] + k)
    /\ sent' = [sent EXCEPT ![p] = sent[p] + k]
    /\ calls' = [calls EXCEPT ![cur[p]].n = sent[p] + k]
    /\ pc' = [pc EXCEPT ![p] = IF sent[p] + k = Len(buf[p]) THEN "unlock" ELSE "write"]
    /\ UNCHANGED <<variant, clock, mu, messages, mainpc, delivered, undecodable,
                   payload, buf, err, cur, overlap, file0>>

\* a variant of WriteFail with a bug: the error comes after the file took
\* all the bytes
WriteFailAfterAll(p) ==
    /\ Alive
    /\ pc[p] = "write"
    /\ sent[p] < Len(buf[p])
    /\ file' = file \o SubSeq(buf[p], sent[p] + 1, Len(buf[p]))
    /\ sent' = [sent EXCEPT ![p] = Len(buf[p])]
    /\ calls' = [calls EXCEPT ![cur[p]].n = Len(buf[p])]
    /\ err' = [err EXCEPT ![p] = "write"]
    /\ pc' = [pc EXCEPT ![p] = "unlock"]
    /\ UNCHANGED <<variant, clock, mu, messages, mainpc, delivered, undecodable,
                   payload, buf, cur, overlap, file0>>

\* a write that fails: what the file took before stays in it
WriteFail(p) ==
    /\ Alive
    /\ pc[p] = "write"
    /\ sent[p] < Len(buf[p])
    /\ err' = [err EXCEPT ![p] = "write"]
    /\ pc' = [pc EXCEPT ![p] = "unlock"]
    /\ UNCHANGED <<variant, clock, file, mu, messages, mainpc, delivered, undecodable,
                   payload, buf, sent, cur, calls, overlap, file0>>

\* --------------------------------------------------------------- Line Sink
\* FileWriter.WriteMessage: os.OpenFile fails
LineOpenFail(p) ==
    /\ Alive
    /\ variant = "line"
    /\ pc[p] = "locked"
    /\ err' = [err EXCEPT ![p] = "open"]
    /\ pc' = [pc EXCEPT ![p] = "unlock"]
    /\ UNCHANGED <<variant, clock, file, mu, messages, mainpc, delivered, undecodable,
                   payload, buf, sent, cur, calls, overlap, file0>>

\* FileWriter.WriteMessage: the file is open, the line is built
LineOpen(p) ==
    /\ Alive
    /\ variant = "line"
    /\ pc[p] = "locked"
    /\ file' = OpenFile(file)
    /\ \E t \in Now :
         LET date == Format(t)
             line == BuildLine(date, payload[p])
         IN  /\ clock' = t
             /\ buf' = [buf EXCEPT ![p] = line]
             /\ calls' = [calls EXCEPT ![cur[p]].date = date,
                                       ![cur[p]].line = line,
                                       ![cur[p]].off = Len(file')]
    /\ sent' = [sent EXCEPT ![p] = 0]
    /\ pc' = [pc EXCEPT ![p] = "write"]
    /\ UNCHANGED <<variant, mu, messages, mainpc, delivered, undecodable,
                   payload, err, cur, overlap, file0>>

\* --------------------------------------------------------- JSON Store Sink
\* MessageStore.AddMessage: filter, stamp, append
StoreAppend(p) ==
    /\ Alive
    /\ variant = "json"
    /\ pc[p] = "locked"
    /\ \E t \in Now :
         LET date == Format(t)
             record == MessageRecord(date, FilterPayload(payload[p]))
         IN  /\ clock' = t
             /\ messages' = Append(messages, record)
             /\ calls' = [calls EXCEPT ![cur[p]].date = date,
                                       ![cur[p]].idx = Len(messages) + 1]
    /\ pc' = [pc EXCEPT ![p] = "save"]
    /\ UNCHANGED <<variant, file, mu, mainpc, delivered, undecodable,
                   payload, buf, sent, err, cur, overlap, file0>>

\* a variant of StoreCreateFail with a bug: the record that could not be
\* saved is taken out of the sequence again
StoreCreateFailRollback(p) ==
    /\ Alive
    /\ variant = "json"
    /\ pc[p] = "save"
    /\ err' = [err EXCEPT ![p] = "create"]
    /\ pc' = [pc EXCEPT ![p] = "unlock"]
    /\ messages' = SubSeq(messages, 1, Len(messages) - 1)
    /\ UNCHANGED <<variant, clock, file, mu, mainpc, delivered, undecodable,
                   payload, buf, sent, cur, calls, overlap, file0>>

\* MessageStore.saveToFile: os.Create fails
StoreCreateFail(p) ==
    /\ Alive
    /\ variant = "json"
    /\ pc[p] = "save"
    /\ err' = [err EXCEPT ![p] = "create"]
    /\ pc' = [pc EXCEPT ![p] = "unlock"]
    /\ UNCHANGED <<variant, clock, file, mu, messages, mainpc, delivered, undecodable,
                   payload, buf, sent, cur, calls, overlap, file0>>

\* MessageStore.saveToFile: the file is created, the array is encoded
StoreCreate(p) ==
    /\ Alive
    /\ variant = "json"
    /\ pc[p] = "save"
    /\ file' = CreateFile(file)
    /\ buf' = [buf EXCEPT ![p] = Encode(messages)]
    /\ sent' = [sent EXCEPT ![p] = 0]
    /\ pc' = [pc EXCEPT ![p] = "write"]
    /\ UNCHANGED <<variant, clock, mu, messages, mainpc, delivered, undecodable,
                   payload, err, cur, calls, overlap, file0>>

\* ---------------------------------------------------------------- return
\* a variant of Return with a bug: mu.Unlock is no deferred call but the last
\* statement of the sink call, and a return with an error does not reach it
ReturnKeepsLockOnError(p) ==
    /\ Alive
    /\ pc[p] = "unlock"
    /\ mu' = IF mu = p /\ err[p] = "" THEN NoProc ELSE mu
    /\ calls' = [calls EXCEPT ![cur[p]].status = IF err[p] = "" THEN "ok" ELSE "err"]
    /\ pc' = [pc EXCEPT ![p] = "idle"]
    /\ payload' = [payload EXCEPT ![p] = EmptyMap]
    /\ buf' = [buf EXCEPT ![p] = <<>>]
    /\ sent' = [sent EXCEPT ![p] = 0]
    /\ err' = [err EXCEPT ![p] = ""]
    /\ cur' = [cur EXCEPT ![p] = 0]
    /\ UNCHANGED <<variant, clock, file, messages, mainpc, delivered, undecodable,
                   overlap, file0>>

\* The deferred file.Close and mu.Unlock run, the sink call returns err, and
\* messageHandler logs and returns: it never calls the sink again for the message.
Return(p) ==
    /\ Alive
    /\ pc[p] = "unlock"
    /\ mu' = IF mu = p THEN NoProc ELSE mu
    /\ calls' = [calls EXCEPT ![cur[p]].status = IF err[p] = "" THEN "ok" ELSE "err"]
    /\ pc' = [pc EXCEPT ![p] = "idle"]
    /\ payload' = [payload EXCEPT ![p] = EmptyMap]
    /\ buf' = [buf EXCEPT ![p] = <<>>]
    /\ sent' = [sent EXCEPT ![p] = 0]
    /\ err' = [err EXCEPT ![p] = ""]
    /\ cur' = [cur EXCEPT ![p] = 0]
    /\ UNCHANGED <<variant, clock, file, messages, mainpc, delivered, undecodable,
                   overlap, file0>>

\* ------------------------------------------------------------------- main
\* <-sigChan; client.Disconnect(250): an interrupt or SIGTERM arrives and main
\* disconnects. Disconnect returns after at most 250 ms, whatever the handlers
\* that are running do; no handler is started after it.
Shutdown ==
    /\ mainpc = "running"
    /\ mainpc' = "disconnected"
    /\ UNCHANGED <<variant, clock, file, mu, messages, delivered, undecodable, pc,
                   payload, buf, sent, err, cur, calls, overlap, file0>>

\* log.Printf("Total messages recorded: %d", len(store.messages)): main reads
\* the sequence; it takes no lock
LogTotal ==
    /\ variant = "json"
    /\ mainpc = "disconnected"
    /\ mainpc' = "logged"
    /\ UNCHANGED <<variant, clock, file, mu, messages, delivered, undecodable, pc,
                   payload, buf, sent, err, cur, calls, overlap, file0>>

\* main returns: the process ends, and every goroutine with it
Exit ==
    /\ \/ variant = "line" /\ mainpc = "disconnected"
       \/ variant = "json" /\ mainpc = "logged"
    /\ mainpc' = "exited"
    /\ UNCHANGED <<variant, clock, file, mu, messages, delivered, undecodable, pc,
                   payload, buf, sent, err, cur, calls, overlap, file0>>

\* ------------------------------------------------------------ specification
\* the handlers: messages arrive, the sink records them
Sink ==
    \/ \E p \in Procs : \E b \in Bodies : Handler(p, b)
    \/ \E p \in Procs : Lock(p)
    \/ \E p \in Procs : LineOpenFail(p)
    \/ \E p \in Procs : LineOpen(p)
    \/ \E p \in Procs : StoreAppend(p)
    \/ \E p \in Procs : StoreCreateFail(p)
    \/ \E p \in Procs : StoreCreate(p)
    \/ \E p \in Procs : \E k \in 1..Len(buf[p]) : WriteChunk(p, k)
    \/ \E p \in Procs : WriteFail(p)
    \/ \E p \in Procs : Return(p)

\* main: the shutdown
Main ==
    \/ Shutdown
    \/ LogTotal
    \/ Exit

Next == Sink \/ Main

Spec == Init /\ [][Next]_vars

\* The process while no signal arrives. The steps of main change mainpc
\* alone and only ever stop the handlers, so what holds of the file, the
\* sequence and the handlers here holds under Spec too.
SinkSpec == Init /\ [][Sink]_vars

\* ------------------------------------------------- the Line Sink, scheduled
\* the process of src/main.go
LineInit == Init /\ variant = "line"

\* a step of handler p inside WriteMessage, after the lock: the open, a piece
\* of the write, the return, or one of the failures
LineProceed(p) ==
    \/ LineOpenFail(p)
    \/ LineOpen(p)
    \/ \E k \in 1..Len(buf[p]) : WriteChunk(p, k)
    \/ WriteFail(p)
    \/ Return(p)

LineSink ==
    \/ \E p \in Procs : \E b \in Bodies : Handler(p, b)
    \/ \E p \in Procs : Lock(p)
    \/ \E p \in Procs : LineProceed(p)

\* The Line Sink while no signal arrives, with the scheduling of Go: a
\* goroutine that can run does run, and every call of the file system
\* returns (weak fairness of the steps of each handler); a goroutine that
\* waits in Mutex.Lock is not overtaken for ever, since a waiter of more than
\* 1 ms puts the mutex in starvation mode and Unlock then hands the mutex to
\* it (strong fairness of Lock). The arrival of messages is not fair: the
\* broker may stay silent.
FairLineSpec ==
    /\ LineInit /\ [][LineSink]_vars
    /\ \A p \in Procs : WF_vars(LineProceed(p)) /\ SF_vars(Lock(p))

\* ============================================================ properties
IsPrefix(s, t) == Len(s) <= Len(t) /\ SubSeq(t, 1, Len(s)) = s

\* the keys of a payload that a record keeps
Restrict(pl) == [k \in DOMAIN pl \cap {"name", "rssi"} |-> pl[k]]

\* no sink call is in progress
AllReturned == \A p \in Procs : pc[p] = "idle"

Failed(i) == calls[i].status = "err"
Succeeded(i) == calls[i].status = "ok"

\* the lines of a text: each piece up to and with a newline, and what follows
\* the last newline
RECURSIVE SplitLines(_, _, _, _)
SplitLines(s, i, acc, line) ==
    IF i > Len(s) THEN [lines |-> acc, rest |-> line]
    ELSE IF s[i] = "\n" THEN SplitLines(s, i + 1, Append(acc, Append(line, s[i])), <<>>)
    ELSE SplitLines(s, i + 1, acc, Append(line, s[i]))

\* the text the file holds where call i wrote
Written(i) == SubSeq(file, calls[i].off + 1, calls[i].off + calls[i].n)

\* what the file has gained since the process started
Added == SubSeq(file, Len(file0) + 1, Len(file))

\* C1: Line Sink: when the N concurrent WriteMessage calls have returned and
\* none failed, the file holds exactly N more complete lines, one per call,
\* each the whole line of exactly one call.
C1_OneLinePerCall ==
    (variant = "line" /\ AllReturned /\ \A i \in 1..Len(calls) : Succeeded(i))
    => LET t == SplitLines(Added, 1, <<>>, <<>>)
       IN  /\ IsPrefix(file0, file)
           /\ t.rest = <<>>
           /\ Len(t.lines) = Len(calls)
           /\ \E f \in Permutations(1..Len(calls)) :
                \A i \in 1..Len(calls) : t.lines[i] = calls[f[i]].line

\* Lemma (the mutex of the Line Sink): the text each call has written lies in
\* the file in one piece, where the call began to write, and is a prefix of
\* the call's line; the file is the old content followed by these pieces.
LineWritesInOnePiece ==
    variant = "line"
    => /\ \A i \in 1..Len(calls) :
            calls[i].line # <<>> => Written(i) = SubSeq(calls[i].line, 1, calls[i].n)
       /\ \A i, j \in 1..Len(calls) :
            (i # j /\ calls[i].n > 0 /\ calls[j].n > 0)
            => \/ calls[i].off + calls[i].n <= calls[j].off
               \/ calls[j].off + calls[j].n <= calls[i].off

\* C2: JSON Store Sink: after M >= 1 sequential AddMessage calls, none of
\* which failed, the file decodes to an array of exactly M elements in call
\* order; element i has the filtered payload of call i and the timestamp
\* read during call i.
C2_FileIsArrayOfCalls ==
    (variant = "json" /\ AllReturned /\ ~overlap /\ Len(calls) > 0
        /\ \A i \in 1..Len(calls) : Succeeded(i))
    => LET d == Decode(file)
       IN  /\ d.ok
           /\ Len(d.val) = Len(calls)
           /\ \A i \in 1..Len(calls) :
                /\ d.val[i].Payload = Restrict(calls[i].payload)
                /\ d.val[i].Date = calls[i].date

C2_Witness ==
    /\ variant = "json" /\ AllReturned /\ ~overlap
    /\ Len(calls) = MaxMsgs
    /\ \A i \in 1..Len(calls) : Succeeded(i)
    /\ calls[1].payload # calls[2].payload
    /\ calls[1].date # calls[2].date

\* the line of a payload, case by case
ExpectedLine(date, pl) ==
    CASE "name" \in DOMAIN pl /\ "rssi" \in DOMAIN pl ->
           <<date, "|name=">> \o Sprintf(pl["name"]) \o <<"|rssi=">>
           \o Sprintf(pl["rssi"]) \o <<"\n">>
      [] "name" \in DOMAIN pl /\ "rssi" \notin DOMAIN pl ->
           <<date, "|name=">> \o Sprintf(pl["name"]) \o <<"\n">>
      [] "name" \notin DOMAIN pl /\ "rssi" \in DOMAIN pl ->
           <<date, "|rssi=">> \o Sprintf(pl["rssi"]) \o <<"\n">>
      [] OTHER -> <<date, "\n">>

\* C3: Line Sink: the line WriteMessage writes is the timestamp, then
\* "|name=<name>" if and only if the payload has the key name, then
\* "|rssi=<rssi>" if and only if it has the key rssi, then one newline.
C3_LineFormat ==
    variant = "line"
    => \A i \in 1..Len(calls) :
         /\ calls[i].line # <<>>
            => calls[i].line = ExpectedLine(calls[i].date, calls[i].payload)
         /\ Succeeded(i)
            => Written(i) = ExpectedLine(calls[i].date, calls[i].payload)

C3_Witness ==
    /\ variant = "line"
    /\ \E i, j \in 1..Len(calls) :
         /\ Succeeded(i) /\ DOMAIN calls[i].payload = {"name"}
         /\ Succeeded(j) /\ DOMAIN calls[j].payload = {}

\* C4: in both sinks the record of a payload carries exactly the payload's
\* keys among name and rssi, with the payload's values; other keys are
\* dropped, an absent key is absent, and a payload with neither key still
\* gives one record with the timestamp alone.
C4_OnlyNameAndRssi ==
    \A i \in 1..Len(calls) :
      /\ (variant = "json" /\ calls[i].idx > 0)
         => /\ calls[i].idx <= Len(messages)
            /\ DOMAIN messages[calls[i].idx].Payload
                 = DOMAIN calls[i].payload \cap {"name", "rssi"}
            /\ \A k \in DOMAIN messages[calls[i].idx].Payload :
                 messages[calls[i].idx].Payload[k] = calls[i].payload[k]
      /\ (variant = "line" /\ Succeeded(i))
         => /\ Written(i) = BuildLine(calls[i].date, Restrict(calls[i].payload))
            /\ DOMAIN calls[i].payload \cap {"name", "rssi"} = {}
               => Written(i) = <<calls[i].date, "\n">>

C4_Witness ==
    /\ variant = "json"
    /\ \E i, j \in 1..Len(calls) :
         /\ Succeeded(i) /\ "id" \in DOMAIN calls[i].payload
         /\ Succeeded(j) /\ DOMAIN calls[j].payload = {}
         /\ messages[calls[j].idx].Payload = EmptyMap

\* C5: Line Sink: the file is append-only: no step of a WriteMessage call,
\* successful or failed, takes away or rewrites what the file holds, so the
\* content before a call is a prefix of the content after it.
C5_AppendOnly == [][variant = "line" => IsPrefix(file, file')]_vars

C5_Witness ==
    /\ variant = "line"
    /\ \E i, j \in 1..Len(calls) :
         /\ Failed(i) /\ calls[i].n > 0
         /\ Succeeded(j)
    /\ IsPrefix(file0, file)
    /\ Len(file) > Len(file0)

\* handler p returns from the sink call with an error in this step
ReturnsError(p) == pc[p] = "unlock" /\ err[p] # "" /\ pc'[p] = "idle"

\* C6: JSON Store Sink: when AddMessage returns an error (the file could not
\* be created, or the encoding failed), the new record is in the in-memory
\* sequence, at its end, and no step changes an earlier record.
C6_FailedRecordKept ==
    [][variant = "json"
       => /\ IsPrefix(messages, messages')
          /\ \A p \in Procs :
               ReturnsError(p)
               => /\ messages' = messages
                  /\ calls[cur[p]].idx = Len(messages)
                  /\ Len(messages) > 0
                  /\ messages[Len(messages)]
                       = MessageRecord(calls[cur[p]].date, Restrict(payload[p]))]_vars

C6_Witness ==
    /\ variant = "json"
    /\ \E i, j \in 1..Len(calls) :
         /\ Succeeded(i) /\ calls[i].idx = 1
         /\ Failed(j) /\ calls[j].idx = 2
    /\ Len(messages) = 2

\* the record of call i is in the output file
InFile(i) ==
    IF variant = "line"
    THEN calls[i].line # <<>> /\ Written(i) = calls[i].line
    ELSE LET d == Decode(file)
         IN  /\ calls[i].idx > 0
             /\ d.ok
             /\ calls[i].idx <= Len(d.val)
             /\ d.val[calls[i].idx]
                  = MessageRecord(calls[i].date, Restrict(calls[i].payload))

\* C7, as claimed: in both sinks a message whose sink call returned an error
\* is lost for good: the file never holds a record of it.
C7_FailedIsLost == \A i \in 1..Len(calls) : Failed(i) => ~InFile(i)

\* a successful AddMessage of handler p is about to return: the file is whole
Saved(p) == variant = "json" /\ pc[p] = "unlock" /\ err[p] = ""

\* C7, amended: messageHandler calls the sink once per message and never
\* again. In the Line Sink a failed call leaves at most a proper prefix of
\* its line in the file, never the line. In the JSON Store Sink the record
\* of a failed call stays in the sequence, and every later successful
\* AddMessage writes it to the file with the others.
C7_FailedLineLostFailedRecordSaved ==
    /\ Len(calls) <= delivered
    /\ \A i \in 1..Len(calls) :
         (variant = "line" /\ Failed(i))
         => /\ calls[i].line = <<>> \/ calls[i].n < Len(calls[i].line)
            /\ Written(i) = SubSeq(calls[i].line, 1, calls[i].n)
            /\ ~InFile(i)
    /\ \A i \in 1..Len(calls) :
         (variant = "json" /\ Failed(i))
         => /\ calls[i].idx \in 1..Len(messages)
            /\ messages[calls[i].idx]
                 = MessageRecord(calls[i].date, Restrict(calls[i].payload))
    /\ \A p \in Procs :
         Saved(p) => Decode(file).ok /\ Decode(file).val = messages

C7_Witness ==
    /\ \E p \in Procs : Saved(p)
    /\ \E i \in 1..Len(calls) : Failed(i) /\ InFile(i)

\* C8, as claimed: every access to MessageStore.messages, the read of
\* len(store.messages) in main's shutdown path too, is made under the lock,
\* so none overlaps an AddMessage in progress.
C8_NoAccessDuringAddMessage ==
    [][(variant = "json" /\ mainpc = "disconnected" /\ mainpc' = "logged")
       => \A p \in Procs : ~InLock(p)]_vars

\* C9, as claimed: the process does not exit while a WriteMessage or
\* AddMessage call is in progress.
C9_NoExitDuringCall == mainpc = "exited" => \A p \in Procs : ~InCall(p)

\* C10: a message whose body does not decode as a JSON object never reaches
\* the sink: every such message led to no sink call, and the step that
\* handles it leaves the file, the sequence and the sink alone.
C10_UndecodableNeverReachesSink ==
    /\ [](Len(calls) + undecodable = delivered)
    /\ [][undecodable' # undecodable
          => UNCHANGED <<file, messages, calls, mu, pc, payload, clock>>]_vars

C10_Witness ==
    /\ undecodable > 0
    /\ Len(calls) > 0
    /\ \E i \in 1..Len(calls) : Succeeded(i)

\* C11: Line Sink: a failed WriteMessage call is not fatal and does not block
\* the later ones: the step that returns an error leaves the process running;
\* every return, with an error or without, releases the lock, so the lock is
\* only ever held by a handler inside the call; and every handler that waits
\* for the lock, one that waits while the failing call holds it too,
\* eventually acquires it.
C11_FailureDoesNotBlock ==
    /\ [][\A p \in Procs :
            /\ ReturnsError(p) => mainpc' = mainpc /\ mainpc' = "running"
            /\ (pc[p] = "unlock" /\ pc'[p] = "idle") => mu' = NoProc]_vars
    /\ [](\A p \in Procs : mu = p => InLock(p))
    /\ [](mu = NoProc \/ mu \in Procs)
    /\ [](\A p \in Procs : pc[p] = "call" => <>(pc[p] = "locked"))

\* a call failed after it had written a part of its line, and the call that
\* began while it was in progress, and so waited for the lock it held, has
\* written its whole line after that part and returned nil
C11_Witness ==
    /\ variant = "line"
    /\ overlap
    /\ Len(calls) = 2
    /\ Failed(1) /\ calls[1].n > 0
    /\ Succeeded(2) /\ InFile(2)
    /\ calls[2].off >= calls[1].off + calls[1].n
    /\ mainpc = "running"

\* the text of a timestamp, and the second it was made of
IsDate(tok) == \E t \in 0..MaxClock : tok = Format(t)
ParseDate(tok) == CHOOSE t \in 0..MaxClock : tok = Format(t)

NonDecreasing(s) == \A i, j \in 1..Len(s) : i < j => s[i] <= s[j]

\* the timestamps the file holds, in file order
FileDates ==
    LET d == SelectSeq(file, IsDate)
    IN  [i \in 1..Len(d) |-> ParseDate(d[i])]

\* C12: in both sinks the timestamp of a record is read while the lock is
\* held: a call in progress that has its timestamp holds the lock, and a call
\* that waits for the lock has none. So, under every interleaving of the
\* calls, the timestamps in the output file are non-decreasing in file order:
\* those of the lines of the Line Sink, whole or cut short by a failure, and
\* those of the elements of the array of the JSON Store Sink, in the text
\* of the file at every moment and, once the calls have returned, in the
\* array the file decodes to.
C12_TimestampsInFileOrder ==
    /\ \A p \in Procs :
         /\ (cur[p] # 0 /\ calls[cur[p]].date # "") => mu = p
         /\ pc[p] = "call" => calls[cur[p]].date = ""
    /\ NonDecreasing(FileDates)
    /\ (variant = "json" /\ AllReturned)
       => LET d == Decode(file)
          IN  d.ok => NonDecreasing([i \in 1..Len(d.val) |-> ParseDate(d.val[i].Date)])

\* two calls ran concurrently, the one that took the lock second read a later
\* second, and the file holds the two timestamps
C12_Witness ==
    /\ overlap
    /\ AllReturned
    /\ Len(calls) = 2
    /\ Succeeded(1) /\ Succeeded(2)
    /\ calls[1].date # calls[2].date
    /\ Len(FileDates) = 2
    /\ FileDates[1] < FileDates[2]

====
